---- MODULE Spec2Model ----
(***************************************************************************)
(* McpEnvInitService (main-process service that detects uv and bun,       *)
(* installs whichever is missing and reports progress to a renderer).      *)
(*                                                                         *)
(* Texts are sequences of atoms.  Text that comes from outside the         *)
(* service (installer output, messages of thrown errors) is a sequence of  *)
(* one-character strings.  A catalogue text t(key) and a string literal of *)
(* the source are one atom each, named by the key or the literal.          *)
(* An optional value is <<>> (undefined) or <<v>>.                         *)
(***************************************************************************)
EXTENDS Integers, Sequences, FiniteSets, TLC

\* ------------------------------------------------------------------ bounds
\* start() calls plus installer output chunks in one behaviour
MaxInputs == 2
\* log entries appended past MAX_LOGS
MaxExtraAppends == 2

\* ------------------------------------------------------- program constants
MAX_LOGS == 500
TAIL_MAX == 4000

\* ------------------------------------------------------------ small inputs
Senders == {"w1", "w2"}
ExitCodes == {0, 1}

None == <<>>
Some(x) == <<x>>

Min(a, b) == IF a < b THEN a ELSE b
Max(a, b) == IF a > b THEN a ELSE b

\* s.slice(-n) of an array or a string
LastN(s, n) == SubSeq(s, Max(1, Len(s) - n + 1), Len(s))

\* ------------------------------------------------------------------- texts
ToLowerCase(ch) ==
  CASE ch = "A" -> "a" [] ch = "B" -> "b" [] ch = "C" -> "c" [] ch = "D" -> "d"
    [] ch = "E" -> "e" [] ch = "F" -> "f" [] ch = "G" -> "g" [] ch = "H" -> "h"
    [] ch = "I" -> "i" [] ch = "J" -> "j" [] ch = "K" -> "k" [] ch = "L" -> "l"
    [] ch = "M" -> "m" [] ch = "N" -> "n" [] ch = "O" -> "o" [] ch = "P" -> "p"
    [] ch = "Q" -> "q" [] ch = "R" -> "r" [] ch = "S" -> "s" [] ch = "T" -> "t"
    [] ch = "U" -> "u" [] ch = "V" -> "v" [] ch = "W" -> "w" [] ch = "X" -> "x"
    [] ch = "Y" -> "y" [] ch = "Z" -> "z" [] OTHER -> ch

Lower(s) == [i \in 1..Len(s) |-> ToLowerCase(s[i])]

\* String.prototype.includes
Includes(s, pat) ==
  \E i \in 0..(Len(s) - Len(pat)) : SubSeq(s, i + 1, i + Len(pat)) = pat

IncludesAny(s, pats) == \E p \in pats : Includes(s, p)

IsSpace(ch) == ch \in {" ", "\t", "\r", "\n"}

RECURSIVE TrimStart(_)
TrimStart(s) == IF s # <<>> /\ IsSpace(Head(s)) THEN TrimStart(Tail(s)) ELSE s

RECURSIVE TrimEnd(_)
TrimEnd(s) ==
  IF s # <<>> /\ IsSpace(s[Len(s)]) THEN TrimEnd(SubSeq(s, 1, Len(s) - 1)) ELSE s

\* String.prototype.trim
Trim(s) == TrimEnd(TrimStart(s))

\* chunk.split(/\r?\n/): the sequence of pieces between line breaks
RECURSIVE SplitFrom(_, _, _)
SplitFrom(s, i, cur) ==
  IF i > Len(s) THEN <<cur>>
  ELSE IF s[i] = "\n" THEN <<cur>> \o SplitFrom(s, i + 1, <<>>)
  ELSE IF s[i] = "\r" /\ i < Len(s) /\ s[i + 1] = "\n"
    THEN <<cur>> \o SplitFrom(s, i + 2, <<>>)
  ELSE SplitFrom(s, i + 1, Append(cur, s[i]))

SplitLines(s) == SplitFrom(s, 1, <<>>)

\* the lines of a chunk that the stream callbacks log
LoggedLines(chunk) ==
  LET tr == [i \in 1..Len(SplitLines(chunk)) |-> Trim(SplitLines(chunk)[i])]
  IN  SelectSeq(tr, LAMBDA m : m # <<>>)

\* locale.ts t(): the catalogue text of a key (the key itself when the
\* catalogue has no entry for it)
t(key) == <<key>>

tailTextMax(text, max) ==
  IF text = <<>> THEN <<>>
  ELSE IF Len(text) > max THEN SubSeq(text, Len(text) - max + 1, Len(text))
  ELSE text

tailText(text) == tailTextMax(text, TAIL_MAX)

\* ------------------------------------------------------ failure classifier
NetworkKeywords ==
  { <<"e", "n", "o", "t", "f", "o", "u", "n", "d">>,
    <<"e", "c", "o", "n", "n", "r", "e", "f", "u", "s", "e", "d">>,
    <<"e", "t", "i", "m", "e", "d", "o", "u", "t">>,
    <<"t", "i", "m", "e", "d", " ", "o", "u", "t">>,
    <<"n", "e", "t", "w", "o", "r", "k", " ", "i", "s", " ", "u", "n", "r", "e", "a", "c", "h", "a", "b", "l", "e">>,
    <<"c", "o", "u", "l", "d", " ", "n", "o", "t", " ", "r", "e", "s", "o", "l", "v", "e">> }

CertificateKeywords ==
  { <<"c", "e", "r", "t", "i", "f", "i", "c", "a", "t", "e">>,
    <<"s", "e", "l", "f", " ", "s", "i", "g", "n", "e", "d">>,
    <<"u", "n", "a", "b", "l", "e", " ", "t", "o", " ", "g", "e", "t", " ", "l", "o", "c", "a", "l", " ", "i", "s", "s", "u", "e", "r">> }

PermissionKeywords ==
  { <<"e", "a", "c", "c", "e", "s">>,
    <<"e", "p", "e", "r", "m">>,
    <<"p", "e", "r", "m", "i", "s", "s", "i", "o", "n", " ", "d", "e", "n", "i", "e", "d">>,
    <<"a", "c", "c", "e", "s", "s", " ", "i", "s", " ", "d", "e", "n", "i", "e", "d">> }

\* tests the permission keywords before the network and certificate ones
summarizeFailure_permissionFirst(stderr, stdout, win) ==
  LET s == Lower(stderr \o <<"\n">> \o stdout)
  IN  IF IncludesAny(s, PermissionKeywords)
        THEN Some(IF win THEN t("mcp.envInit.errorSummary.permissionWindows")
                         ELSE t("mcp.envInit.errorSummary.permissionUnix"))
      ELSE IF IncludesAny(s, NetworkKeywords)
        THEN Some(t("mcp.envInit.errorSummary.networkIssue"))
      ELSE IF IncludesAny(s, CertificateKeywords)
        THEN Some(t("mcp.envInit.errorSummary.certificateIssue"))
      ELSE None

summarizeFailure(stderr, stdout, win) ==
  LET s == Lower(stderr \o <<"\n">> \o stdout)
  IN  IF IncludesAny(s, NetworkKeywords)
        THEN Some(t("mcp.envInit.errorSummary.networkIssue"))
      ELSE IF IncludesAny(s, CertificateKeywords)
        THEN Some(t("mcp.envInit.errorSummary.certificateIssue"))
      ELSE IF IncludesAny(s, PermissionKeywords)
        THEN Some(IF win THEN t("mcp.envInit.errorSummary.permissionWindows")
                         ELSE t("mcp.envInit.errorSummary.permissionUnix"))
      ELSE None

\* ------------------------------------------------------------------- state
VARIABLES
  state,      \* this.state
  running,    \* this.running: 0 is null, otherwise the run whose promise it is
  runs,       \* the run() activations launched so far, in launch order
  calls,      \* the start() calls made so far and what each caller was handed
  emitted,    \* the events the last handler passed to sender.send, in order
  clock,      \* number of Date.now() readings taken so far
  appended,   \* every log entry pushLog has appended so far, in order
  isWin       \* @main/constant isWin

vars == <<state, running, runs, calls, emitted, clock, appended, isWin>>

Stages ==
  { "idle", "start-check", "check-uv", "check-bun", "need-install",
    "no-need-install", "start-install-uv", "installing-uv",
    "start-install-bun", "installing-bun", "env-ready", "failed" }

defaultState(at) ==
  [ stage |-> "idle", uvInstalled |-> FALSE, bunInstalled |-> FALSE,
    installing |-> FALSE, done |-> FALSE, failed |-> FALSE,
    error |-> None, logs |-> <<>>, updatedAt |-> at ]

\* An McpEnvInitError; absent optional fields are None.
Err(message, command, exitCode, stderrTail, stdoutTail, suggestion) ==
  [ message |-> message, command |-> command, exitCode |-> exitCode,
    stderrTail |-> stderrTail, stdoutTail |-> stdoutTail,
    suggestion |-> suggestion ]

\* The synchronous body of a handler threads a context
\* [st: this.state, out: events sent so far by the handler, clk: clock].
Ctx(st, out, clk) == [st |-> st, out |-> out, clk |-> clk]

\* sends every event to every renderer, whoever the handler names
emit_toAll(c, sender, event) ==
  [c EXCEPT !.out = @ \o << [to |-> "w1", event |-> event],
                            [to |-> "w2", event |-> event] >>]

emit(c, sender, event) ==
  [c EXCEPT !.out = Append(@, [to |-> sender, event |-> event])]

StateEvent(st) == [type |-> "state", state |-> st]
LogEvent(log) == [type |-> "log", log |-> log]
StageEvent(stage, at) == [type |-> "stage", stage |-> stage, at |-> at]

\* [...logs, logEntry].slice(0, MAX_LOGS): keeps the oldest entries
appendLog_keepOldest(logs, logEntry) ==
  SubSeq(Append(logs, logEntry), 1, Min(Len(logs) + 1, MAX_LOGS))

appendLog(logs, logEntry) == LastN(Append(logs, logEntry), MAX_LOGS)

pushLog(c, sender, level, message, source) ==
  LET logEntry == [ts |-> c.clk + 1, level |-> level, message |-> message,
                   source |-> source]
      st1 == [c.st EXCEPT !.logs = appendLog(@, logEntry),
                          !.updatedAt = c.clk + 2]
      c1 == [c EXCEPT !.st = st1, !.clk = c.clk + 2]
  IN  emit(emit(c1, sender, LogEvent(logEntry)), sender, StateEvent(st1))

info(c, sender, message, source) == pushLog(c, sender, "info", message, source)
warn(c, sender, message, source) == pushLog(c, sender, "warn", message, source)
error(c, sender, message, source) == pushLog(c, sender, "error", message, source)

\* sends the snapshot before the 'stage' event
setStage_snapshotFirst(c, sender, stage) ==
  LET st1 == [c.st EXCEPT !.stage = stage, !.updatedAt = c.clk + 1]
      c1 == [c EXCEPT !.st = st1, !.clk = c.clk + 1]
  IN  emit(emit(c1, sender, StateEvent(st1)),
           sender, StageEvent(stage, st1.updatedAt))

setStage(c, sender, stage) ==
  LET st1 == [c.st EXCEPT !.stage = stage, !.updatedAt = c.clk + 1]
      c1 == [c EXCEPT !.st = st1, !.clk = c.clk + 1]
  IN  emit(emit(c1, sender, StageEvent(stage, st1.updatedAt)),
           sender, StateEvent(st1))

\* leaves installing as it is
fail_keepInstalling(c, sender, err) ==
  LET st1 == [c.st EXCEPT !.failed = TRUE, !.done = TRUE,
                          !.error = Some(err),
                          !.stage = "failed", !.updatedAt = c.clk + 1]
      c1 == emit([c EXCEPT !.st = st1, !.clk = c.clk + 1], sender,
                 StateEvent(st1))
      c2 == error(c1, sender,
                  t("mcp.envInit.messages.initFailed") \o err.message, "system")
  IN  IF err.suggestion # None
        THEN warn(c2, sender,
                  t("mcp.envInit.errors.suggestion") \o err.suggestion[1],
                  "system")
        ELSE c2

fail(c, sender, err) ==
  LET st1 == [c.st EXCEPT !.failed = TRUE, !.done = TRUE,
                          !.installing = FALSE, !.error = Some(err),
                          !.stage = "failed", !.updatedAt = c.clk + 1]
      c1 == emit([c EXCEPT !.st = st1, !.clk = c.clk + 1], sender,
                 StateEvent(st1))
      c2 == error(c1, sender,
                  t("mcp.envInit.messages.initFailed") \o err.message, "system")
  IN  IF err.suggestion # None
        THEN warn(c2, sender,
                  t("mcp.envInit.errors.suggestion") \o err.suggestion[1],
                  "system")
        ELSE c2

\* ---------------------------------------------------------------- the run
\* Where a run() activation is suspended:
\*   probe-uvx, probe-uv, probe-bun        awaiting isBinaryExists (1, 2)
\*   install-uv, install-bun               awaiting spawnNodeScriptStreaming
\*   recheck-uvx, recheck-uv, recheck-bun  awaiting isBinaryExists (4)
\*   resolved, rejected                    run() settled, .catch not yet run
\*   caught                                .catch ran, .finally not yet run
\*   finished                              .finally ran
ProbePcs == {"probe-uvx", "probe-uv", "probe-bun",
             "recheck-uvx", "recheck-uv", "recheck-bun"}
InstallPcs == {"install-uv", "install-bun"}

InstallPc(tool) == IF tool = "uv" THEN "install-uv" ELSE "install-bun"

NewRun(sender) ==
  [ pc |-> "probe-uvx", sender |-> sender, uvOk |-> FALSE, bunOk |-> FALSE,
    todo |-> <<>>, stdout |-> <<>>, stderr |-> <<>>, nchunks |-> 0,
    invoked |-> <<>>, completed |-> {}, uvOk2 |-> FALSE, bunOk2 |-> FALSE,
    exited |-> None, err |-> None, settles |-> "value" ]

Script(tool) ==
  IF tool = "uv" THEN "resources/scripts/install-uv.js"
                 ELSE "resources/scripts/install-bun.js"

Command(tool) == <<"process.execPath", " ", Script(tool)>>

\* run(), 1) up to the first probe
runBegin(c, sender) ==
  info(setStage(c, sender, "check-uv"), sender,
       t("mcp.envInit.messages.checkingUv"), "uv")

\* run(), from the result of the uv probe up to the bun probe
afterUvProbe(c, sender, uvOk) ==
  LET st1 == [c.st EXCEPT !.uvInstalled = uvOk]
      c1 == emit([c EXCEPT !.st = st1], sender, StateEvent(st1))
      c2 == info(c1, sender,
                 IF uvOk THEN t("mcp.envInit.messages.uvInstalled")
                         ELSE t("mcp.envInit.messages.uvNotInstalled"), "uv")
  IN  info(setStage(c2, sender, "check-bun"), sender,
           t("mcp.envInit.messages.checkingBun"), "bun")

\* [needUv ? 'uv' : null, needBun ? 'bun' : null].filter(Boolean).join(', ')
MissingNames(needUv, needBun) ==
  IF needUv /\ needBun THEN <<"uv", ", ", "bun">>
  ELSE IF needUv THEN <<"uv">>
  ELSE IF needBun THEN <<"bun">>
  ELSE <<>>

\* run(), from the result of the bun probe up to the first installer
afterBunProbe(c, sender, uvOk, bunOk) ==
  LET st1 == [c.st EXCEPT !.bunInstalled = bunOk]
      c1 == emit([c EXCEPT !.st = st1], sender, StateEvent(st1))
      c2 == info(c1, sender,
                 IF bunOk THEN t("mcp.envInit.messages.bunInstalled")
                          ELSE t("mcp.envInit.messages.bunNotInstalled"), "bun")
      needUv == ~uvOk
      needBun == ~bunOk
  IN  IF ~needUv /\ ~needBun
        THEN LET c3 == info(setStage(c2, sender, "no-need-install"), sender,
                            t("mcp.envInit.messages.noNeedInstall"), "system")
                 c4 == setStage(c3, sender, "env-ready")
                 st5 == [c4.st EXCEPT !.done = TRUE, !.installing = FALSE,
                                      !.failed = FALSE]
             IN  emit([c4 EXCEPT !.st = st5], sender, StateEvent(st5))
        ELSE LET c3 == warn(setStage(c2, sender, "need-install"), sender,
                            t("mcp.envInit.messages.needInstall")
                              \o MissingNames(needUv, needBun), "system")
                 st4 == [c3.st EXCEPT !.installing = TRUE]
             IN  emit([c3 EXCEPT !.st = st4], sender, StateEvent(st4))

\* run(), 3): the installers a run awaits, in order
\* bun before uv
InstallOrder_bunFirst == <<"bun", "uv">>

InstallOrder == <<"uv", "bun">>

\* awaits both installers whatever the probes found
installSteps_all(needUv, needBun) == InstallOrder

installSteps(needUv, needBun) ==
  SelectSeq(InstallOrder,
            LAMBDA x : (x = "uv" /\ needUv) \/ (x = "bun" /\ needBun))

\* installUv() / installBun() up to the spawn
installBegin(c, sender, tool) ==
  IF tool = "uv"
    THEN setStage(warn(setStage(c, sender, "start-install-uv"), sender,
                       t("mcp.envInit.messages.startInstallUv"), "uv"),
                  sender, "installing-uv")
    ELSE setStage(warn(setStage(c, sender, "start-install-bun"), sender,
                       t("mcp.envInit.messages.startInstallBun"), "bun"),
                  sender, "installing-bun")

RECURSIVE logLines(_, _, _, _, _)
logLines(c, sender, level, lines, source) ==
  IF lines = <<>> THEN c
  ELSE logLines(pushLog(c, sender, level, Head(lines), source),
                sender, level, Tail(lines), source)

onStdoutChunk(c, sender, tool, chunk) ==
  logLines(c, sender, "info", LoggedLines(chunk), tool)

onStderrChunk(c, sender, tool, chunk) ==
  logLines(c, sender, "warn", LoggedLines(chunk), tool)

\* the catch block of installUv() / installBun(); emsg is error.message
installCatch(c, sender, tool, emsg, win) ==
  IF ~c.st.failed
    THEN IF tool = "uv"
      THEN fail(c, sender,
             Err(t("mcp.envInit.messages.uvInstallException") \o emsg,
                 Some(Command(tool)), None, None, None,
                 Some(IF win
                        THEN t("mcp.envInit.messages.checkPowerShellFirewall")
                        ELSE t("mcp.envInit.messages.checkNetworkProxy"))))
      ELSE fail(c, sender,
             Err(t("mcp.envInit.messages.bunInstallException") \o emsg,
                 Some(Command(tool)), None, None, None,
                 IF summarizeFailure(<<>>, emsg, win) # None
                   THEN summarizeFailure(<<>>, emsg, win)
                   ELSE Some(t("mcp.envInit.messages.checkNetworkPermissionCert"))))
    ELSE c

InstallFailedMessage(tool) ==
  IF tool = "uv" THEN <<"uv install failed">> ELSE <<"bun install failed">>

\* records the failure of a non-zero exit but throws nothing
installReturned_noThrow(c, sender, tool, exitCode, stderr, stdout, win) ==
  IF exitCode # 0
    THEN [ c |-> fail(c, sender,
                      Err(IF tool = "uv"
                            THEN t("mcp.envInit.messages.uvInstallFailed")
                            ELSE t("mcp.envInit.messages.bunInstallFailed"),
                          Some(Command(tool)), Some(exitCode),
                          Some(tailText(stderr)), Some(tailText(stdout)),
                          summarizeFailure(stderr, stdout, win))),
           thrown |-> None ]
    ELSE [ c |-> info(c, sender,
                      IF tool = "uv"
                        THEN t("mcp.envInit.messages.uvInstallScriptCompleted")
                        ELSE t("mcp.envInit.messages.bunInstallScriptCompleted"),
                      tool),
           thrown |-> None ]

\* installUv() / installBun() from the return of spawnNodeScriptStreaming:
\* the context, and the message of the error thrown to run() (None when the
\* installer returns normally)
installReturned(c, sender, tool, exitCode, stderr, stdout, win) ==
  IF exitCode # 0
    THEN LET c1 == fail(c, sender,
                     Err(IF tool = "uv"
                           THEN t("mcp.envInit.messages.uvInstallFailed")
                           ELSE t("mcp.envInit.messages.bunInstallFailed"),
                         Some(Command(tool)), Some(exitCode),
                         Some(tailText(stderr)), Some(tailText(stdout)),
                         summarizeFailure(stderr, stdout, win)))
         IN  [ c |-> installCatch(c1, sender, tool,
                                  InstallFailedMessage(tool), win),
               thrown |-> Some(InstallFailedMessage(tool)) ]
    ELSE [ c |-> info(c, sender,
                      IF tool = "uv"
                        THEN t("mcp.envInit.messages.uvInstallScriptCompleted")
                        ELSE t("mcp.envInit.messages.bunInstallScriptCompleted"),
                      tool),
           thrown |-> None ]

\* announces the re-check as stage check-uv
recheckBegin_checkUv(c, sender) ==
  info(setStage(c, sender, "check-uv"), sender,
       t("mcp.envInit.messages.recheckAfterInstall"), "system")

\* run(), 4) up to the first probe of the re-check
recheckBegin(c, sender) ==
  info(setStage(c, sender, "start-check"), sender,
       t("mcp.envInit.messages.recheckAfterInstall"), "system")

\* fails only when both tools are still absent
recheckEnd_bothAbsent(c, sender, uvOk2, bunOk2) ==
  LET st1 == [c.st EXCEPT !.uvInstalled = uvOk2, !.bunInstalled = bunOk2]
      c1 == [c EXCEPT !.st = st1]
  IN  IF ~uvOk2 /\ ~bunOk2
        THEN fail(c1, sender,
               Err(t("mcp.envInit.messages.installScriptCompletedButRecheckFailed"),
                   None, None, None, None,
                   Some(t("mcp.envInit.messages.checkSecuritySoftware"))))
        ELSE LET c2 == setStage(c1, sender, "env-ready")
                 st3 == [c2.st EXCEPT !.done = TRUE, !.failed = FALSE,
                                      !.installing = FALSE,
                                      !.updatedAt = c2.clk + 1]
                 c3 == emit([c2 EXCEPT !.st = st3, !.clk = c2.clk + 1], sender,
                            StateEvent(st3))
             IN  info(c3, sender, t("mcp.envInit.messages.initComplete"),
                      "system")

\* reports a failed re-check with the message of a failed uv installer
recheckEnd_exitMessage(c, sender, uvOk2, bunOk2) ==
  LET st1 == [c.st EXCEPT !.uvInstalled = uvOk2, !.bunInstalled = bunOk2]
      c1 == [c EXCEPT !.st = st1]
  IN  IF ~uvOk2 \/ ~bunOk2
        THEN fail(c1, sender,
               Err(t("mcp.envInit.messages.uvInstallFailed"),
                   None, None, None, None,
                   Some(t("mcp.envInit.messages.checkSecuritySoftware"))))
        ELSE LET c2 == setStage(c1, sender, "env-ready")
                 st3 == [c2.st EXCEPT !.done = TRUE, !.failed = FALSE,
                                      !.installing = FALSE,
                                      !.updatedAt = c2.clk + 1]
                 c3 == emit([c2 EXCEPT !.st = st3, !.clk = c2.clk + 1], sender,
                            StateEvent(st3))
             IN  info(c3, sender, t("mcp.envInit.messages.initComplete"),
                      "system")

\* run(), 4) from the results of the re-check probes
recheckEnd(c, sender, uvOk2, bunOk2) ==
  LET st1 == [c.st EXCEPT !.uvInstalled = uvOk2, !.bunInstalled = bunOk2]
      c1 == [c EXCEPT !.st = st1]
  IN  IF ~uvOk2 \/ ~bunOk2
        THEN fail(c1, sender,
               Err(t("mcp.envInit.messages.installScriptCompletedButRecheckFailed"),
                   None, None, None, None,
                   Some(t("mcp.envInit.messages.checkSecuritySoftware"))))
        ELSE LET c2 == setStage(c1, sender, "env-ready")
                 st3 == [c2.st EXCEPT !.done = TRUE, !.failed = FALSE,
                                      !.installing = FALSE,
                                      !.updatedAt = c2.clk + 1]
                 c3 == emit([c2 EXCEPT !.st = st3, !.clk = c2.clk + 1], sender,
                            StateEvent(st3))
             IN  info(c3, sender, t("mcp.envInit.messages.initComplete"),
                      "system")

\* ------------------------------------------------------------------ inputs
StdoutChunks == { <<"o", "k", "\r", "\n", " ", "\n">> }
StderrChunks == { <<"E", "T", "I", "M", "E", "D", "O", "U", "T", "\n">> }
ThrowMessages == { <<"s", "p", "a", "w", "n", " ", "E", "A", "C", "C", "E", "S">>,
                   <<"n", "o", " ", "n", "o", "d", "e">> }

\* ----------------------------------------------------------------- start()
\* tests failed where the source tests !failed
AlreadyReady_failed(st) ==
  st.done /\ st.failed /\ st.uvInstalled /\ st.bunInstalled

AlreadyReady(st) == st.done /\ ~st.failed /\ st.uvInstalled /\ st.bunInstalled

\* never reuses the run in flight
startBranch_noReuse(st, handle) ==
  IF AlreadyReady(st) THEN "ready" ELSE "launch"

\* hands out the cached state of any concluded run, failed ones included
startBranch_doneIsFinal(st, handle) ==
  IF st.done THEN "ready"
  ELSE IF handle # 0 THEN "attach"
  ELSE "launch"

\* which of its three paths start() takes
startBranch(st, handle) ==
  IF AlreadyReady(st) THEN "ready"
  ELSE IF handle # 0 THEN "attach"
  ELSE "launch"

\* resets to the default state, logs included
resetTransient_clearLogs(st, at) ==
  [st EXCEPT !.failed = FALSE, !.done = FALSE, !.error = None,
             !.installing = FALSE, !.logs = <<>>, !.updatedAt = at]

\* clears the flags but keeps the error of the run before
resetTransient_keepError(st, at) ==
  [st EXCEPT !.failed = FALSE, !.done = FALSE,
             !.installing = FALSE, !.updatedAt = at]

\* start(), the reset of the transient flags
resetTransient(st, at) ==
  [st EXCEPT !.failed = FALSE, !.done = FALSE, !.error = None,
             !.installing = FALSE, !.updatedAt = at]

\* records the failure and throws the error again
startCatch_rethrow(c, sender, emsg) ==
  [ c |-> fail(c, sender, Err(emsg, None, None, None, None, None)),
    settles |-> "thrown" ]

\* the .catch callback of start(): the context and how the promise settles
startCatch(c, sender, emsg) ==
  [ c |-> fail(c, sender, Err(emsg, None, None, None, None, None)),
    settles |-> "value" ]

\* sends nothing to a caller that joins the run in flight
attachSnapshot_silent(c, sender) == c

\* start(), the second branch: the snapshot sent to a caller that joins the
\* run in flight
attachSnapshot(c, sender) == emit(c, sender, StateEvent(c.st))

Pending(sender, r) ==
  [sender |-> sender, run |-> r, kind |-> "pending", value |-> None]
Returned(sender, r, kind, st) ==
  [sender |-> sender, run |-> r, kind |-> kind, value |-> Some(st)]

\* the log entries of the 'log' events in out, in order
LogsIn(out) ==
  LET sel == SelectSeq(out, LAMBDA e : e.event.type = "log")
  IN  [i \in 1..Len(sel) |-> sel[i].event.log]

Commit(c) == /\ state' = c.st
             /\ emitted' = c.out
             /\ clock' = c.clk
             /\ appended' = appended \o LogsIn(c.out)

Here == Ctx(state, <<>>, clock)

\* number of chunks the installers of runs 1..n have written
RECURSIVE ChunksSoFar(_)
ChunksSoFar(n) == IF n = 0 THEN 0 ELSE runs[n].nchunks + ChunksSoFar(n - 1)

\* start() calls made and chunks written so far
InputsSoFar == Len(calls) + ChunksSoFar(Len(runs))

Init ==
  /\ state = defaultState(0)
  /\ running = 0
  /\ runs = <<>>
  /\ calls = <<>>
  /\ emitted = <<>>
  /\ clock = 0
  /\ appended = <<>>
  /\ isWin \in BOOLEAN

\* (senders are interchangeable: the first caller is named "w1")
Start(sender) ==
  /\ InputsSoFar < MaxInputs
  /\ calls = <<>> => sender = "w1"
  /\ LET br == startBranch(state, running)
     IN  CASE br = "ready" ->
                /\ Commit(emit(Here, sender, StateEvent(state)))
                /\ calls' = Append(calls, Returned(sender, 0, "value", state))
                /\ UNCHANGED <<running, runs>>
           [] br = "attach" ->
                /\ Commit(attachSnapshot(Here, sender))
                /\ calls' = Append(calls, Pending(sender, running))
                /\ UNCHANGED <<running, runs>>
           [] OTHER ->
                LET st0 == resetTransient(state, clock + 1)
                    c1 == info(setStage(Ctx(st0, <<>>, clock + 1), sender,
                                        "start-check"), sender,
                               t("mcp.envInit.messages.startCheck"), "system")
                IN  /\ Commit(runBegin(c1, sender))
                    /\ runs' = Append(runs, NewRun(sender))
                    /\ running' = Len(runs) + 1
                    /\ calls' = Append(calls, Pending(sender, Len(runs) + 1))
  /\ UNCHANGED isWin

\* isBinaryExists(...) resolves with b
ProbeReturn(r, b) ==
  /\ r \in DOMAIN runs
  /\ runs[r].pc \in ProbePcs
  /\ LET run == runs[r]
         s == run.sender
     IN  CASE run.pc = "probe-uvx" /\ ~b ->
                /\ runs' = [runs EXCEPT ![r].pc = "probe-uv"]
                /\ Commit(Here)
           [] run.pc \in {"probe-uvx", "probe-uv"} /\ (b \/ run.pc = "probe-uv") ->
                /\ runs' = [runs EXCEPT ![r].pc = "probe-bun", ![r].uvOk = b]
                /\ Commit(afterUvProbe(Here, s, b))
           [] run.pc = "probe-bun" ->
                LET c1 == afterBunProbe(Here, s, run.uvOk, b)
                    todo == installSteps(~run.uvOk, ~b)
                IN  IF todo = <<>>
                      THEN /\ runs' = [runs EXCEPT ![r].pc = "resolved",
                                                   ![r].bunOk = b]
                           /\ Commit(c1)
                      ELSE /\ runs' = [runs EXCEPT
                                         ![r].pc = InstallPc(Head(todo)),
                                         ![r].bunOk = b,
                                         ![r].todo = todo,
                                         ![r].invoked = Append(@, Head(todo))]
                           /\ Commit(installBegin(c1, s, Head(todo)))
           [] run.pc = "recheck-uvx" /\ ~b ->
                /\ runs' = [runs EXCEPT ![r].pc = "recheck-uv"]
                /\ Commit(Here)
           [] run.pc \in {"recheck-uvx", "recheck-uv"}
                /\ (b \/ run.pc = "recheck-uv") ->
                /\ runs' = [runs EXCEPT ![r].pc = "recheck-bun",
                                        ![r].uvOk2 = b]
                /\ Commit(Here)
           [] OTHER ->
                /\ runs' = [runs EXCEPT ![r].pc = "resolved", ![r].bunOk2 = b]
                /\ Commit(recheckEnd(Here, s, run.uvOk2, b))
  /\ UNCHANGED <<running, calls, isWin>>

\* the installer child process writes a chunk to one of its streams
InstallerChunk(r, stream, chunk) ==
  /\ r \in DOMAIN runs
  /\ runs[r].pc \in InstallPcs
  /\ InputsSoFar < MaxInputs
  /\ LET run == runs[r]
         tool == Head(run.todo)
     IN  IF stream = "stdout"
           THEN /\ chunk \in StdoutChunks
                /\ runs' = [runs EXCEPT ![r].stdout = @ \o chunk,
                                        ![r].nchunks = @ + 1]
                /\ Commit(onStdoutChunk(Here, run.sender, tool, chunk))
           ELSE /\ chunk \in StderrChunks
                /\ runs' = [runs EXCEPT ![r].stderr = @ \o chunk,
                                        ![r].nchunks = @ + 1]
                /\ Commit(onStderrChunk(Here, run.sender, tool, chunk))
  /\ UNCHANGED <<running, calls, isWin>>

\* spawnNodeScriptStreaming resolves with {exitCode, stderr, stdout}
InstallerReturn(r, exitCode) ==
  /\ r \in DOMAIN runs
  /\ runs[r].pc \in InstallPcs
  /\ LET run == runs[r]
         s == run.sender
         tool == Head(run.todo)
         res == installReturned(Here, s, tool, exitCode, run.stderr,
                                run.stdout, isWin)
         rest == Tail(run.todo)
         ended == [run EXCEPT !.completed = @ \cup {tool}, !.stdout = <<>>,
                              !.stderr = <<>>,
                              !.exited = Some([tool |-> tool, code |-> exitCode,
                                               stderr |-> run.stderr,
                                               stdout |-> run.stdout])]
     IN  IF res.thrown # None
           THEN /\ runs' = [runs EXCEPT ![r] = [ended EXCEPT !.pc = "rejected",
                                                             !.err = res.thrown]]
                /\ Commit(res.c)
         ELSE IF rest # <<>>
           THEN /\ runs' = [runs EXCEPT ![r] =
                              [ended EXCEPT !.pc = InstallPc(Head(rest)),
                                            !.todo = rest,
                                            !.invoked = Append(@, Head(rest))]]
                /\ Commit(installBegin(res.c, s, Head(rest)))
         ELSE /\ runs' = [runs EXCEPT ![r] =
                            [ended EXCEPT !.pc = "recheck-uvx", !.todo = rest]]
              /\ Commit(recheckBegin(res.c, s))
  /\ UNCHANGED <<running, calls, isWin>>

\* spawnNodeScriptStreaming throws an error whose message is emsg
InstallerThrow(r, emsg) ==
  /\ r \in DOMAIN runs
  /\ runs[r].pc \in InstallPcs
  /\ LET run == runs[r]
         tool == Head(run.todo)
     IN  /\ runs' = [runs EXCEPT ![r].pc = "rejected", ![r].err = Some(emsg),
                                 ![r].completed = @ \cup {tool},
                                 ![r].stdout = <<>>, ![r].stderr = <<>>]
         /\ Commit(installCatch(Here, run.sender, tool, emsg, isWin))
  /\ UNCHANGED <<running, calls, isWin>>

\* the .catch callback of start() runs for a rejected run()
RunCatch(r) ==
  /\ r \in DOMAIN runs
  /\ runs[r].pc = "rejected"
  /\ LET res == startCatch(Here, runs[r].sender, runs[r].err[1])
     IN  /\ runs' = [runs EXCEPT ![r].pc = "caught",
                                 ![r].settles = res.settles]
         /\ Commit(res.c)
  /\ UNCHANGED <<running, calls, isWin>>

\* settles the promise but leaves this.running set
RunFinally_keepHandle(r) ==
  /\ r \in DOMAIN runs
  /\ runs[r].pc \in {"resolved", "caught"}
  /\ running' = running
  /\ runs' = [runs EXCEPT ![r].pc = "finished"]
  /\ calls' = [i \in DOMAIN calls |->
                 IF calls[i].run = r /\ calls[i].kind = "pending"
                   THEN Returned(calls[i].sender, r, runs[r].settles, state)
                   ELSE calls[i]]
  /\ Commit(Here)
  /\ UNCHANGED isWin

\* the .finally callback of start() runs and the promise settles
RunFinally(r) ==
  /\ r \in DOMAIN runs
  /\ runs[r].pc \in {"resolved", "caught"}
  /\ running' = 0
  /\ runs' = [runs EXCEPT ![r].pc = "finished"]
  /\ calls' = [i \in DOMAIN calls |->
                 IF calls[i].run = r /\ calls[i].kind = "pending"
                   THEN Returned(calls[i].sender, r, runs[r].settles, state)
                   ELSE calls[i]]
  /\ Commit(Here)
  /\ UNCHANGED isWin

Next ==
  \/ \E s \in Senders : Start(s)
  \/ \E r \in DOMAIN runs, b \in BOOLEAN : ProbeReturn(r, b)
  \/ \E r \in DOMAIN runs, chunk \in StdoutChunks :
       InstallerChunk(r, "stdout", chunk)
  \/ \E r \in DOMAIN runs, chunk \in StderrChunks :
       InstallerChunk(r, "stderr", chunk)
  \/ \E r \in DOMAIN runs, code \in ExitCodes : InstallerReturn(r, code)
  \/ \E r \in DOMAIN runs, m \in ThrowMessages : InstallerThrow(r, m)
  \/ \E r \in DOMAIN runs : RunCatch(r)
  \/ \E r \in DOMAIN runs : RunFinally(r)

Spec == Init /\ [][Next]_vars

\* ------------------------------------------------------------ with progress
\* What the environment and the event loop guarantee: a pending
\* isBinaryExists() settles; a spawned installer exits or the spawn throws;
\* the .catch and .finally callbacks of a settled promise are run.  Nothing
\* obliges a renderer to call start() or an installer to write output.
ProbeSettles == \E r \in DOMAIN runs, b \in BOOLEAN : ProbeReturn(r, b)

InstallerSettles ==
  \E r \in DOMAIN runs :
    \/ \E code \in ExitCodes : InstallerReturn(r, code)
    \/ \E m \in ThrowMessages : InstallerThrow(r, m)

\* some run() awaits isBinaryExists: the states in which ProbeSettles is
\* enabled (ProbeReturn has no other guard and always moves the run on)
ProbePending == \E r \in DOMAIN runs : runs[r].pc \in ProbePcs

\* some run() awaits spawnNodeScriptStreaming: the states in which
\* InstallerSettles is enabled
InstallerPending == \E r \in DOMAIN runs : runs[r].pc \in InstallPcs

\* Weak fairness of the four kinds of step.  For the two awaited calls it is
\* written out, WF_vars(A) being []<>~ENABLED <<A>>_vars \/ []<><<A>>_vars,
\* with the state predicate that tells when the step is enabled.
Fairness ==
  /\ []<>(~ProbePending) \/ []<><<ProbeSettles>>_vars
  /\ []<>(~InstallerPending) \/ []<><<InstallerSettles>>_vars
  /\ WF_vars(\E r \in DOMAIN runs : RunCatch(r))
  /\ WF_vars(\E r \in DOMAIN runs : RunFinally(r))

SpecFair == Init /\ [][Next]_vars /\ Fairness

\* ------------------------------------------------- the log buffer by itself
\* pushLog applied over and over to the initial state.  Lines are info lines
\* until the buffer is one entry short of MAX_LOGS; from there on every level
\* and source is tried, for MaxExtraAppends entries past the bound.
Levels == {"info", "warn", "error"}
Sources == {"uv", "bun", "system"}

LogAppend(sender, level, source) ==
  /\ Len(appended) < MAX_LOGS + MaxExtraAppends
  /\ Len(appended) < MAX_LOGS - 1 => level = "info" /\ source = "system"
  /\ Commit(pushLog(Here, sender, level, <<"l", "i", "n", "e">>, source))
  /\ UNCHANGED <<running, runs, calls, isWin>>

NextLog ==
  \E sender \in Senders, level \in Levels, source \in Sources :
    LogAppend(sender, level, source)

SpecLog == Init /\ [][NextLog]_vars

\* ------------------------------------------------- the classifier by itself
\* summarizeFailure applied where the service applies it: an installer that
\* has written some text to stderr and to stdout exits.  The texts cover every
\* combination of the three keyword classes, in either letter case, and a
\* keyword split between the end of stderr and the start of stdout.
ClassifierStderr ==
  { <<>>,
    <<"E", "P", "E", "R", "M">>,
    <<"S", "e", "l", "f", " ", "S", "i", "g", "n", "e", "d">>,
    <<"E", "P", "E", "R", "M", ":", " ", "c", "e", "r", "t", "i", "f", "i", "c", "a", "t", "e">>,
    <<"r", "e", "q", "u", "e", "s", "t", " ", "t", "i", "m", "e", "d">> }

ClassifierStdout ==
  { <<>>,
    <<" ", "o", "u", "t">>,
    <<"E", "N", "O", "T", "F", "O", "U", "N", "D">>,
    <<"A", "c", "c", "e", "s", "s", " ", "i", "s", " ", "d", "e", "n", "i", "e", "d">>,
    <<"o", "k">> }

\* The state in which the first run, having found only tool missing, awaits
\* tool's installer, which has written e to stderr and then o to stdout (an
\* empty text is no write).  Each handler on the way starts from the state
\* and clock the one before it left.
InitClassify ==
  /\ isWin \in BOOLEAN
  /\ \E tool \in {"uv", "bun"}, e \in ClassifierStderr, o \in ClassifierStdout,
        sender \in {"w1"} :
      \E c1 \in { runBegin(info(setStage(
                     Ctx(resetTransient(defaultState(0), 1), <<>>, 1),
                     sender, "start-check"), sender,
                     t("mcp.envInit.messages.startCheck"), "system"), sender) } :
      \E c2 \in { afterUvProbe(Ctx(c1.st, <<>>, c1.clk), sender, tool # "uv") } :
      \E c3 \in { afterBunProbe(Ctx(c2.st, <<>>, c2.clk), sender,
                                tool # "uv", tool # "bun") } :
      \E c4 \in { installBegin(c3, sender, tool) } :
      \E c5 \in { IF e = <<>> THEN c4
                   ELSE onStderrChunk(Ctx(c4.st, <<>>, c4.clk), sender, tool, e) } :
      \E c6 \in { IF o = <<>> THEN c5
                   ELSE onStdoutChunk(Ctx(c5.st, <<>>, c5.clk), sender, tool, o) } :
        /\ state = c6.st
        /\ clock = c6.clk
        /\ emitted = c6.out
        /\ appended = c6.st.logs
        /\ running = 1
        /\ calls = <<Pending(sender, 1)>>
        /\ runs = << [NewRun(sender) EXCEPT
                        !.pc = InstallPc(tool),
                        !.uvOk = (tool # "uv"), !.bunOk = (tool # "bun"),
                        !.todo = <<tool>>, !.invoked = <<tool>>,
                        !.stderr = e, !.stdout = o,
                        !.nchunks = (IF e = <<>> THEN 0 ELSE 1)
                                      + (IF o = <<>> THEN 0 ELSE 1)] >>

NextClassify ==
  \E r \in DOMAIN runs, code \in ExitCodes : InstallerReturn(r, code)

SpecClassify == InitClassify /\ [][NextClassify]_vars

\* ------------------------------------------------------------------ claims
ActiveRuns == {r \in DOMAIN runs : runs[r].pc # "finished"}

Range(f) == {f[i] : i \in DOMAIN f}

\* the installers of run r that have been spawned and have not yet returned
Spawned(r) == {x \in Range(runs[r].invoked) : x \notin runs[r].completed}

\* the states an observer can see now: this.state and the snapshots just sent
Snapshots ==
  {state} \cup {emitted[i].event.state :
                  i \in {j \in DOMAIN emitted : emitted[j].event.type = "state"}}

\* C1: single-flight.  At most one run() activation is unfinished at any
\* time, every caller still waiting waits for that one activation (the one
\* this.running names), and within an activation each tool's installer is
\* spawned at most once.
C1_SingleFlight ==
  /\ Cardinality(ActiveRuns) <= 1
  /\ \A i \in DOMAIN calls :
       calls[i].kind = "pending" =>
         /\ calls[i].run = running
         /\ calls[i].run \in ActiveRuns
  /\ \A r \in DOMAIN runs :
       Len(runs[r].invoked) = Cardinality(Range(runs[r].invoked))

C1_Witness ==
  /\ Len(runs) = 1
  /\ runs[1].pc = "install-uv"
  /\ Len(calls) = 2
  /\ \A i \in DOMAIN calls : calls[i].kind = "pending"

\* C2: already-ready short-circuit.  A start() call made while the cached
\* state has done, not failed, uvInstalled and bunInstalled changes no field
\* of the state, starts no run (so no probe, no installer), sends exactly one
\* 'state' event, to the caller's sender, and returns the cached state.
C2_ReadyShortCircuit ==
  [][ ( /\ state.done /\ ~state.failed
        /\ state.uvInstalled /\ state.bunInstalled
        /\ Len(calls') = Len(calls) + 1 )
      => /\ state' = state
         /\ runs' = runs /\ running' = running /\ clock' = clock
         /\ Len(emitted') = 1
         /\ emitted'[1] = [to |-> calls'[Len(calls')].sender,
                           event |-> StateEvent(state)]
         /\ calls'[Len(calls')].kind = "value"
         /\ calls'[Len(calls')].value = Some(state) ]_vars

C2_Witness ==
  /\ Len(calls) = 2
  /\ calls[2].run = 0
  /\ calls[1].kind = "value"
  /\ calls[2].value = calls[1].value
  /\ Len(runs) = 1

\* C3: failure on bad exit code.  Once the run in which an installer exited
\* with a non-zero code c is over, this.state has failed and done, and its
\* error holds exitCode c, the command line, and the capped tail of the
\* installer's stderr.
C3_ExitFailureDetail ==
  \A r \in DOMAIN runs :
    ( /\ r = Len(runs)
      /\ runs[r].pc = "finished"
      /\ runs[r].exited # None
      /\ runs[r].exited[1].code # 0 )
    => /\ state.failed /\ state.done
       /\ state.error # None
       /\ state.error[1].exitCode = Some(runs[r].exited[1].code)
       /\ state.error[1].command = Some(Command(runs[r].exited[1].tool))
       /\ state.error[1].stderrTail = Some(tailText(runs[r].exited[1].stderr))

\* C4: no failure reaches the caller of start() as a thrown error.  Every
\* caller is either still waiting or was handed a state value; the value is
\* terminal, and it has failed set when the run threw.
C4_NoThrowToCaller ==
  \A i \in DOMAIN calls :
    /\ calls[i].kind \in {"pending", "value"}
    /\ calls[i].kind = "value" =>
         LET v == calls[i].value[1]
         IN  /\ v.done
             /\ v.failed \/ (v.uvInstalled /\ v.bunInstalled)
             /\ (calls[i].run # 0 /\ runs[calls[i].run].err # None) => v.failed

C4_Witness ==
  \E i \in DOMAIN calls :
    /\ calls[i].kind = "value"
    /\ calls[i].run # 0
    /\ runs[calls[i].run].err # None
    /\ runs[calls[i].run].exited = None

\* C5: sequential installs.  No two installer processes are ever running at
\* once, and in a run that found uv missing the bun installer is spawned only
\* after the uv installer has returned or thrown.
C5_SequentialInstall ==
  /\ Cardinality(UNION {{<<r, x>> : x \in Spawned(r)} : r \in DOMAIN runs}) <= 1
  /\ \A r \in DOMAIN runs :
       ("bun" \in Range(runs[r].invoked) /\ ~runs[r].uvOk)
       => "uv" \in runs[r].completed

C5_Witness ==
  \E r \in DOMAIN runs :
    /\ runs[r].invoked = <<"uv", "bun">>
    /\ runs[r].pc = "install-bun"
    /\ runs[r].completed = {"uv"}

\* C6: stage/snapshot ordering.  In the events a handler sends, every 'stage'
\* event for stage X is directly followed by a 'state' event, to the same
\* sender, whose state has stage X.  (No handler ends on a 'stage' event, so
\* the same holds of the whole event sequence.)
C6_StageThenSnapshot ==
  \A i \in DOMAIN emitted :
    emitted[i].event.type = "stage" =>
      /\ i < Len(emitted)
      /\ emitted[i + 1].to = emitted[i].to
      /\ emitted[i + 1].event.type = "state"
      /\ emitted[i + 1].event.state.stage = emitted[i].event.stage

C6_Witness ==
  \E i \in DOMAIN emitted :
    /\ emitted[i].event.type = "stage"
    /\ emitted[i].event.stage = "installing-bun"

\* the stage an observer last saw before event i of the next handler
StageBefore(i) ==
  LET prev == {j \in 1..(i - 1) : emitted'[j].event.type = "state"}
  IN  IF prev = {} THEN state.stage
      ELSE emitted'[CHOOSE j \in prev : \A k \in prev : k <= j].event.state.stage

\* C7: every stage transition emits a StageChanged event.  Whenever a handler
\* sends a snapshot whose stage X differs from the stage before it (the
\* transition into failed included), the event sent just before that snapshot
\* is the 'stage' event for X.
C7_EveryTransitionEmitsStage ==
  [][ \A i \in DOMAIN emitted' :
        ( /\ emitted'[i].event.type = "state"
          /\ emitted'[i].event.state.stage # StageBefore(i) )
        => /\ i > 1
           /\ emitted'[i - 1].event.type = "stage"
           /\ emitted'[i - 1].event.stage = emitted'[i].event.state.stage ]_vars

\* C8: in this.state and in every snapshot sent, done implies exactly one of
\* failed and (uvInstalled and bunInstalled).
C8_DoneXor ==
  \A st \in Snapshots :
    st.done => (st.failed # (st.uvInstalled /\ st.bunInstalled))

C8_Witness ==
  /\ state.done /\ ~state.failed
  /\ state.uvInstalled /\ state.bunInstalled
  /\ \E r \in DOMAIN runs : runs[r].invoked # <<>> /\ runs[r].pc = "finished"

\* C9: in this.state and in every snapshot sent, installing implies not done.
C9_InstallingNotDone ==
  \A st \in Snapshots : st.installing => ~st.done

C9_Witness ==
  /\ state.installing
  /\ \E r \in DOMAIN runs : runs[r].pc = "install-bun" /\ runs[r].nchunks > 0

\* C10: log bound.  The log buffer never holds more than MAX_LOGS entries and
\* always is the last min(n, MAX_LOGS) of the n entries appended so far, in
\* the order they were appended.
C10_LogBound ==
  /\ Len(state.logs) <= MAX_LOGS
  /\ Len(state.logs) = Min(Len(appended), MAX_LOGS)
  /\ state.logs = SubSeq(appended, Len(appended) - Len(state.logs) + 1,
                         Len(appended))

C10_Witness ==
  /\ Len(appended) = MAX_LOGS + MaxExtraAppends
  /\ Len(state.logs) = MAX_LOGS
  /\ state.logs[MAX_LOGS].level = "error"

\* the runs whose installers all exited with 0 and whose re-check is over
Rechecked ==
  {r \in DOMAIN runs : /\ runs[r].pc \in {"resolved", "finished"}
                       /\ runs[r].invoked # <<>>
                       /\ runs[r].err = None}

\* the messages fail() is given when an installer exits with a non-zero code
ExitFailureMessages ==
  { t("mcp.envInit.messages.uvInstallFailed"),
    t("mcp.envInit.messages.bunInstallFailed") }

\* C11: recheck failure.  When every installer a run needed exited with 0 and
\* the re-probe still finds uv or bun absent, the run ends with failed, done,
\* not installing, stage 'failed', and an error that is exactly the recheck
\* message (not one of the installer-exit messages) with the
\* check-security-software suggestion; this.state keeps that error after the
\* run, and it is what every caller of the run is handed.
C11_RecheckFailure ==
  \A r \in Rechecked :
    (r = Len(runs) /\ (~runs[r].uvOk2 \/ ~runs[r].bunOk2))
    => /\ state.failed /\ state.done /\ ~state.installing
       /\ state.stage = "failed"
       /\ state.error =
            Some(Err(t("mcp.envInit.messages.installScriptCompletedButRecheckFailed"),
                     None, None, None, None,
                     Some(t("mcp.envInit.messages.checkSecuritySoftware"))))
       /\ state.error[1].message \notin ExitFailureMessages
       /\ \A i \in DOMAIN calls :
            (calls[i].run = r /\ calls[i].kind # "pending")
            => calls[i] = Returned(calls[i].sender, r, "value", state)

C11_Witness ==
  \E r \in Rechecked :
    /\ r = Len(runs)
    /\ runs[r].pc = "finished"
    /\ runs[r].invoked = <<"uv", "bun">>
    /\ runs[r].uvOk2 /\ ~runs[r].bunOk2
    /\ state.error # None

\* the entries of appended that start() wrote when it launched a run
LaunchLogs ==
  {i \in DOMAIN appended :
     appended[i].message = t("mcp.envInit.messages.startCheck")}

\* the init-failed error entries fail() has appended since the last launch
FailLogsOfLastRun ==
  {i \in DOMAIN appended :
     /\ \A j \in LaunchLogs : j < i
     /\ appended[i].level = "error"
     /\ appended[i].source = "system"
     /\ Head(appended[i].message) = "mcp.envInit.messages.initFailed"}

\* C12: fail() runs at most once per run.  Since the last launch at most one
\* init-failed error entry has been appended (fail() appends exactly one each
\* time it runs and writes state.error each time).
C12_FailOncePerRun == Cardinality(FailLogsOfLastRun) <= 1

\* C13: retry after conclusion.  A run that has concluded is never the one
\* this.running names; and a start() call made when every run has concluded
\* and the state has failed launches a fresh run: failed, done and error are
\* cleared, the first event is the 'stage' event for start-check, the new
\* run is awaiting its first probe, and the caller waits for the new run
\* rather than being handed the failed state.
C13_RetryAfterConclusion ==
  /\ [](\A r \in DOMAIN runs : runs[r].pc = "finished" => running # r)
  /\ [][ ( /\ state.failed
           /\ runs # <<>>
           /\ \A r \in DOMAIN runs : runs[r].pc = "finished"
           /\ Len(calls') = Len(calls) + 1 )
         => /\ Len(runs') = Len(runs) + 1
            /\ running' = Len(runs')
            /\ runs'[Len(runs')].pc = "probe-uvx"
            /\ ~state'.failed /\ ~state'.done /\ state'.error = None
            /\ emitted'[1].event.type = "stage"
            /\ emitted'[1].event.stage = "start-check"
            /\ calls'[Len(calls')].kind = "pending"
            /\ calls'[Len(calls')].run = Len(runs') ]_vars

C13_Witness ==
  /\ Len(runs) = 2
  /\ runs[1].pc = "finished"
  /\ runs[1].err # None
  /\ calls[1].kind = "value" /\ calls[1].value[1].failed
  /\ runs[2].pc = "probe-bun"
  /\ ~state.failed /\ state.error = None

\* C14: logs are preserved across restarts.  A start() call that launches a
\* run leaves failed, done, installing and error reset, and the log buffer
\* after the call is the buffer before the call followed by the entries the
\* call appended, less what the MAX_LOGS eviction of those appends removed;
\* when nothing is evicted the old entries are the first entries of the new
\* buffer, in the same order.
C14_LogsPreserved ==
  [][ Len(runs') = Len(runs) + 1
      => /\ ~state'.failed /\ ~state'.done /\ ~state'.installing
         /\ state'.error = None
         /\ state'.logs = LastN(state.logs \o LogsIn(emitted'), MAX_LOGS)
         /\ Len(state.logs) + Len(LogsIn(emitted')) <= MAX_LOGS
              => SubSeq(state'.logs, 1, Len(state.logs)) = state.logs ]_vars

C14_Witness ==
  /\ Len(runs) = 2
  /\ runs[2].pc = "probe-uvx"
  /\ runs[1].exited # None
  /\ Len(state.logs) > 2
  /\ \E i \in DOMAIN state.logs :
       /\ state.logs[i].level = "error"
       /\ i < Len(state.logs) - 1

\* C15: attaching to a run in flight.  A start() call made while a run is in
\* flight (and the state is not the ready one) starts and cancels no run and
\* changes neither the state nor the logs nor the clock; it sends exactly one
\* event, the 'state' snapshot of the current state, to the new caller, who
\* then waits for the run in flight.  All callers of one run are handed the
\* same result, and every waiting caller is eventually handed one.
C15_AttachToRunInFlight ==
  /\ [][ ( /\ running # 0
           /\ ~(state.done /\ ~state.failed
                  /\ state.uvInstalled /\ state.bunInstalled)
           /\ Len(calls') = Len(calls) + 1 )
         => /\ state' = state /\ runs' = runs /\ running' = running
            /\ appended' = appended /\ clock' = clock
            /\ emitted' = << [to |-> calls'[Len(calls')].sender,
                              event |-> StateEvent(state)] >>
            /\ calls'[Len(calls')].kind = "pending"
            /\ calls'[Len(calls')].run = running ]_vars
  /\ [](\A i, j \in DOMAIN calls :
          (calls[i].run = calls[j].run /\ calls[i].run # 0)
          => /\ calls[i].kind = calls[j].kind
             /\ calls[i].value = calls[j].value)
  /\ (\E i \in DOMAIN calls : calls[i].kind = "pending")
       ~> (\A i \in DOMAIN calls : calls[i].kind = "value")

C15_Witness ==
  /\ Len(calls) = 2
  /\ calls[1].run = 1 /\ calls[2].run = 1
  /\ calls[1].sender # calls[2].sender
  /\ calls[2].kind = "value"
  /\ calls[2].value = calls[1].value
  /\ runs[1].invoked # <<>>

\* no run is unfinished, this.running is null, every caller has a state
Settled ==
  /\ running = 0
  /\ \A r \in DOMAIN runs : runs[r].pc = "finished"
  /\ \A i \in DOMAIN calls : calls[i].kind = "value"

\* C16: run to completion.  Under Fairness, whenever a run is in flight a
\* state follows in which every run launched is finished, this.running is
\* cleared and every start() call made has been handed a state (a call that
\* launches or joins a run is made with a run in flight; the other calls are
\* answered at once).  When the last run is finished the state has done, with
\* stage env-ready or failed.
C16_RunToCompletion ==
  /\ (running # 0) ~> Settled
  /\ [](\A i \in DOMAIN calls : calls[i].run = 0 => calls[i].kind = "value")
  /\ [](\A r \in DOMAIN runs :
          (r = Len(runs) /\ runs[r].pc = "finished")
          => /\ state.done
             /\ state.stage \in {"env-ready", "failed"}
             /\ state.stage = "failed" <=> state.failed)

C16_Witness ==
  /\ Settled
  /\ Len(runs) = 2
  /\ runs[1].err # None
  /\ runs[2].invoked # <<>>
  /\ state.stage = "env-ready"

\* the runs that ended because spawnNodeScriptStreaming threw
SpawnThrew ==
  {r \in DOMAIN runs :
     /\ runs[r].err # None
     /\ ~(runs[r].exited # None /\ runs[r].exited[1].code # 0)}

\* C17: spawn failure detail.  Once a run in which starting an installer
\* threw is over, this.state.error holds the installer's command line, the
\* suggestion of the platform (PowerShell/firewall on Windows, network/proxy
\* elsewhere) and a message that ends with the message of the thrown error.
C17_SpawnFailureDetail ==
  \A r \in SpawnThrew :
    (r = Len(runs) /\ runs[r].pc = "finished")
    => LET tool == Head(runs[r].todo)
       IN  /\ state.failed /\ state.done
           /\ state.error # None
           /\ state.error[1].command = Some(Command(tool))
           /\ state.error[1].suggestion =
                Some(IF isWin
                       THEN t("mcp.envInit.messages.checkPowerShellFirewall")
                       ELSE t("mcp.envInit.messages.checkNetworkProxy"))
           /\ state.error[1].message =
                (IF tool = "uv"
                   THEN t("mcp.envInit.messages.uvInstallException")
                   ELSE t("mcp.envInit.messages.bunInstallException"))
                \o runs[r].err[1]

\* the text summarizeFailure searches: stderr, a line break, stdout, in
\* lower case
Haystack(stderr, stdout) == Lower(stderr \o <<"\n">> \o stdout)

\* the suggestion recorded when an installer exited with a non-zero code
ExitSuggestion == state.error[1].suggestion

\* the runs just rejected because their installer exited with a non-zero code
ExitRejected ==
  {r \in DOMAIN runs : /\ runs[r].pc = "rejected"
                       /\ runs[r].exited # None
                       /\ runs[r].exited[1].code # 0}

\* C18: failure classifier.  For the text an installer wrote before it exited
\* with a non-zero code, the suggestion is the network one if a network
\* keyword occurs in the lower-cased stderr-and-stdout text; otherwise the
\* certificate one if a certificate keyword occurs; otherwise the permission
\* one of the platform if a permission keyword occurs; otherwise there is
\* none.  So network wins over certificate and permission, and certificate
\* over permission, whichever stream holds which.
C18_ClassifierOrder ==
  \A r \in ExitRejected :
    LET s == Haystack(runs[r].exited[1].stderr, runs[r].exited[1].stdout)
        net == \E k \in NetworkKeywords : Includes(s, k)
        cert == \E k \in CertificateKeywords : Includes(s, k)
        perm == \E k \in PermissionKeywords : Includes(s, k)
    IN  /\ net => ExitSuggestion =
                    Some(t("mcp.envInit.errorSummary.networkIssue"))
        /\ (~net /\ cert) => ExitSuggestion =
                    Some(t("mcp.envInit.errorSummary.certificateIssue"))
        /\ (~net /\ ~cert /\ perm) => ExitSuggestion =
                    Some(IF isWin
                           THEN t("mcp.envInit.errorSummary.permissionWindows")
                           ELSE t("mcp.envInit.errorSummary.permissionUnix"))
        /\ (~net /\ ~cert /\ ~perm) => ExitSuggestion = None

C18_Witness ==
  \E r \in ExitRejected :
    /\ runs[r].exited[1].stderr = <<"E", "P", "E", "R", "M", ":", " ", "c", "e", "r", "t", "i", "f", "i", "c", "a", "t", "e">>
    /\ runs[r].exited[1].stdout = <<"E", "N", "O", "T", "F", "O", "U", "N", "D">>
    /\ ExitSuggestion = Some(t("mcp.envInit.errorSummary.networkIssue"))

\* the stages of the 'stage' events in out, in order
StagesIn(out) ==
  LET sel == SelectSeq(out, LAMBDA e : e.event.type = "stage")
  IN  [i \in 1..Len(sel) |-> sel[i].event.stage]

\* the runs whose initial probes of uv and bun are over
Probed == {r \in DOMAIN runs : runs[r].pc \notin {"probe-uvx", "probe-uv", "probe-bun"}}

\* C19: installers run only for missing tools, at most once per run.  In a
\* run no installer is invoked twice, none before both initial probes are
\* over, and a tool's installer only if the run's initial probe found the
\* tool absent.  A run that probed both tools present invokes no installer
\* and resolves at once: its last log entry is the no-need-install one, the
\* handler that announces no-need-install announces env-ready next and
\* nothing after, and the state has done, not failed, not installing.
C19_InstallOnlyMissing ==
  /\ \A r \in DOMAIN runs :
       /\ Len(runs[r].invoked) = Cardinality(Range(runs[r].invoked))
       /\ runs[r].invoked # <<>> => r \in Probed
       /\ "uv" \in Range(runs[r].invoked) => ~runs[r].uvOk
       /\ "bun" \in Range(runs[r].invoked) => ~runs[r].bunOk
       /\ (r \in Probed /\ runs[r].uvOk /\ runs[r].bunOk)
          => /\ runs[r].invoked = <<>>
             /\ runs[r].pc \in {"resolved", "finished"}
             /\ r = Len(runs)
                => /\ state.done /\ ~state.failed /\ ~state.installing
                   /\ state.stage = "env-ready"
                   /\ appended[Len(appended)].message =
                        t("mcp.envInit.messages.noNeedInstall")
  /\ \A k \in DOMAIN StagesIn(emitted) :
       StagesIn(emitted)[k] = "no-need-install"
       => /\ Len(StagesIn(emitted)) = k + 1
          /\ StagesIn(emitted)[k + 1] = "env-ready"
          /\ emitted[Len(emitted)].event.type = "state"
          /\ emitted[Len(emitted)].event.state.done
          /\ ~emitted[Len(emitted)].event.state.failed
          /\ ~emitted[Len(emitted)].event.state.installing

C19_Witness ==
  /\ Len(runs) = 2
  /\ runs[1].invoked = <<"bun">> /\ runs[1].uvOk
  /\ runs[2].uvOk /\ runs[2].bunOk /\ runs[2].pc = "resolved"
  /\ StagesIn(emitted) = <<"no-need-install", "env-ready">>

\* the runs, with bun missing too, whose uv installer exited with a non-zero
\* code or could not be started
UvFailedBunMissing ==
  {r \in DOMAIN runs :
     /\ "uv" \in Range(runs[r].invoked)
     /\ ~runs[r].bunOk
     /\ \/ /\ runs[r].exited # None
            /\ runs[r].exited[1].tool = "uv"
            /\ runs[r].exited[1].code # 0
        \/ runs[r].err # None /\ Head(runs[r].todo) = "uv"}

\* the re-check entries appended since the last launch
RecheckLogsOfLastRun ==
  {i \in DOMAIN appended :
     /\ \A j \in LaunchLogs : j < i
     /\ appended[i].message = t("mcp.envInit.messages.recheckAfterInstall")}

\* C20: abort on installer failure.  In a run that found uv and bun missing
\* and whose uv installer failed (non-zero exit or spawn throwing), from the
\* failure on the only installer ever invoked is uv's, run() has rejected (it
\* never waits for bun's installer or for a re-check probe, and the re-check
\* is never announced), and the state is the failed terminal one.
C20_AbortOnUvFailure ==
  \A r \in UvFailedBunMissing :
    /\ runs[r].invoked = <<"uv">>
    /\ runs[r].err # None
    /\ runs[r].pc \in {"rejected", "caught", "finished"}
    /\ r = Len(runs)
       => /\ state.failed /\ state.done /\ ~state.installing
          /\ state.stage = "failed"
          /\ RecheckLogsOfLastRun = {}

C20_Witness ==
  \E r \in UvFailedBunMissing :
    /\ runs[r].pc = "finished"
    /\ runs[r].exited # None
    /\ r = Len(runs)
    /\ \E i \in DOMAIN calls : calls[i].run = r /\ calls[i].kind = "value"

\* the stages of the install sub-steps
InstallStages ==
  {"start-install-uv", "installing-uv", "start-install-bun", "installing-bun"}

\* C21: installing only during an install sub-step.  In this.state and in
\* every snapshot sent, installing implies that the stage is one of
\* start-install-uv, installing-uv, start-install-bun, installing-bun.
C21_InstallingOnlyInInstallStages ==
  \A st \in Snapshots : st.installing => st.stage \in InstallStages

TerminalStages == {"env-ready", "failed"}

\* C22: done goes with the terminal stages.  In this.state and in every
\* snapshot sent, the stage is env-ready or failed if and only if done is
\* set.
C22_DoneIffTerminalStage ==
  \A st \in Snapshots : (st.stage \in TerminalStages) <=> st.done

\* the edges of the stage machine
StageEdges ==
  { <<"idle", "start-check">>, <<"start-check", "check-uv">>,
    <<"check-uv", "check-bun">>,
    <<"check-bun", "no-need-install">>, <<"check-bun", "need-install">>,
    <<"no-need-install", "env-ready">>,
    <<"need-install", "start-install-uv">>,
    <<"need-install", "start-install-bun">>,
    <<"start-install-uv", "installing-uv">>,
    <<"start-install-bun", "installing-bun">>,
    <<"installing-uv", "start-install-bun">>,
    <<"installing-uv", "start-check">>, <<"installing-uv", "failed">>,
    <<"installing-bun", "start-check">>, <<"installing-bun", "failed">>,
    <<"start-check", "env-ready">>, <<"start-check", "failed">>,
    <<"failed", "start-check">> }

\* the stages of the 'state' events in out, in order
SnapshotStagesIn(out) ==
  LET sel == SelectSeq(out, LAMBDA e : e.event.type = "state")
  IN  [i \in 1..Len(sel) |-> sel[i].event.state.stage]

\* the values state.stage takes in a step: the stage before the step, the
\* stage of every snapshot the step sends (each assignment to state.stage is
\* followed by a snapshot), and the stage after the step
StageTrail == <<state.stage>> \o SnapshotStagesIn(emitted') \o <<state'.stage>>

\* C23: the stage machine.  state.stage starts at idle, and whenever it
\* changes, the change is one of StageEdges.  env-ready is never left; idle
\* and failed are left only by a start() call; start-check is followed by
\* check-uv only in the start() call that launches the run, and by env-ready
\* or failed only after the re-check, in a later step of the run.
C23_StageMachine ==
  /\ state.stage = "idle"
  /\ [][ \A k \in 1..(Len(StageTrail) - 1) :
           LET a == StageTrail[k]
               b == StageTrail[k + 1]
           IN  a # b =>
                 /\ <<a, b>> \in StageEdges
                 /\ a # "env-ready"
                 /\ a \in {"idle", "failed"}
                    => Len(calls') = Len(calls) + 1 /\ k = 1
                 /\ <<a, b>> = <<"start-check", "check-uv">>
                    => Len(calls') = Len(calls) + 1
                 /\ (a = "start-check" /\ b \in TerminalStages)
                    => calls' = calls ]_vars

C23_Witness ==
  /\ Len(runs) = 2
  /\ runs[1].invoked = <<"uv", "bun">>
  /\ runs[1].err # None
  /\ runs[2].pc = "probe-uvx"
  /\ SnapshotStagesIn(emitted)[1] = "start-check"
  /\ state.stage = "check-uv"

\* C24: failed, stage and error agree.  In this.state and in every snapshot
\* sent, failed is set if and only if the stage is failed, and if and only if
\* an error is present.
C24_FailedStageErrorAgree ==
  \A st \in Snapshots :
    /\ st.failed <=> st.stage = "failed"
    /\ st.failed <=> st.error # None

C24_Witness ==
  /\ Len(runs) = 2
  /\ calls[1].kind = "value"
  /\ calls[1].value[1].failed
  /\ calls[1].value[1].stage = "failed"
  /\ calls[1].value[1].error # None
  /\ runs[2].pc = "install-uv"
  /\ ~state.failed /\ state.error = None /\ state.stage = "installing-uv"

C26_EventsToLauncher ==
  [][ /\ Len(runs') = Len(runs) + 1
         => /\ runs'[Len(runs')].sender = calls'[Len(calls')].sender
            /\ \A i \in DOMAIN emitted' :
                 emitted'[i].to = calls'[Len(calls')].sender
      /\ ( /\ Len(calls') = Len(calls) + 1
           /\ calls'[Len(calls')].kind = "pending"
           /\ runs' = runs )
         => emitted' = << [to |-> calls'[Len(calls')].sender,
                           event |-> StateEvent(state)] >>
      /\ Len(calls') = Len(calls)
         => /\ \A r \in DOMAIN runs : runs'[r].sender = runs[r].sender
            /\ \A i \in DOMAIN emitted' :
                 /\ emitted'[i].to = runs[running].sender
                 /\ \A k \in DOMAIN calls :
                      (calls[k].run = running
                         /\ calls[k].sender # runs[running].sender)
                      => emitted'[i].to # calls[k].sender ]_vars

C26_Witness ==
  /\ Len(runs) = 1
  /\ Len(calls) = 2
  /\ calls[1].sender = "w1" /\ calls[2].sender = "w2"
  /\ calls[2].run = 1 /\ calls[2].kind = "pending"
  /\ runs[1].pc = "install-uv"
  /\ Len(emitted) > 1
  /\ \A i \in DOMAIN emitted : emitted[i].to = "w1"
  /\ \E i \in DOMAIN emitted : emitted[i].event.type = "stage"
  /\ \E i \in DOMAIN emitted : emitted[i].event.type = "log"

====
